---------------------------- MODULE Spec2Model ----------------------------
(***************************************************************************)
(* Model of Index.py: a discounted-cash-flow valuation (dcf_valuation)     *)
(* together with the explanation it renders.                               *)
(*                                                                         *)
(* Numbers are exact rationals [n, d] in lowest terms with d > 0; the      *)
(* float inputs of the program are drawn from small sets of such values.   *)
(* A call of dcf_valuation is stepped statement by statement (pc); a       *)
(* caller makes one call and then, optionally, a second call on a related  *)
(* input (another tax_rate, or the growth rates cut to forecast_periods),  *)
(* so that two runs of the function can be compared in one state.          *)
(***************************************************************************)
EXTENDS Integers, Sequences, FiniteSets, TLC

\* Longest revenue_growth_rates list the caller passes; forecast_periods ranges
\* over 0 .. MaxYears + 1 so that it can exceed every list.
MaxYears == 2

-----------------------------------------------------------------------------
(* Exact rational arithmetic standing for the float operators of Python.   *)

Abs(x) == IF x < 0 THEN -x ELSE x

RECURSIVE GCD(_, _)
GCD(a, b) == IF b = 0 THEN a ELSE GCD(b, a % b)

Rat(n, d) ==
    LET g == GCD(Abs(n), Abs(d))
        s == IF d < 0 THEN -1 ELSE 1
    IN  [n |-> (s * n) \div g, d |-> (s * d) \div g]

Zero == Rat(0, 1)
One == Rat(1, 1)

RAdd(x, y) == Rat(x.n * y.d + y.n * x.d, x.d * y.d)
RSub(x, y) == Rat(x.n * y.d - y.n * x.d, x.d * y.d)
RMul(x, y) == Rat(x.n * y.n, x.d * y.d)
\* x / y for y # 0 (callers raise ZeroDivisionError themselves when y = 0)
RDiv(x, y) == Rat(x.n * y.d, x.d * y.n)
RLeq(x, y) == x.n * y.d <= y.n * x.d
RLt(x, y) == x.n * y.d < y.n * x.d

\* x ** k for an int k >= 0 (0 ** 0 = 1, as in Python)
RECURSIVE RPow(_, _)
RPow(x, k) == IF k = 0 THEN One ELSE RMul(x, RPow(x, k - 1))

\* The integer nearest to n / d (d > 0), ties to even: what the format
\* specifications ".2f" and ".2%" do to the last digit kept.
RoundHalfEven(n, d) ==
    LET q == n \div d
        r == n - q * d
    IN  IF 2 * r < d THEN q
        ELSE IF 2 * r > d THEN q + 1
        ELSE IF q % 2 = 0 THEN q ELSE q + 1

\* f"{x:,.2f}": x shown with two decimals, here as its number of hundredths
Fmt2(x) == RoundHalfEven(x.n * 100, x.d)
\* f"{x:.2%}" and f"{x*100:.2f}%": x shown as a percentage with two decimals,
\* here as its number of hundredths of a percent
FmtPct(x) == RoundHalfEven(x.n * 10000, x.d)

-----------------------------------------------------------------------------
(* Results of the functions that can raise.                                *)

None == [none |-> TRUE]
Ok(v) == [ok |-> TRUE, val |-> v]
Raise(e) == [ok |-> FALSE, err |-> e]

-----------------------------------------------------------------------------
(* The functions of the program.                                           *)

\* s[:k] of Python
Slice(s, k) ==
    IF k >= 0
    THEN SubSeq(s, 1, IF k < Len(s) THEN k ELSE Len(s))
    ELSE SubSeq(s, 1, IF Len(s) + k > 0 THEN Len(s) + k ELSE 0)

RECURSIVE project_revenues_loop(_, _, _)
project_revenues_loop(r, growth_rates, revenues) ==
    IF growth_rates = << >>
    THEN revenues
    ELSE LET r2 == RMul(r, RAdd(One, Head(growth_rates)))
         IN  project_revenues_loop(r2, Tail(growth_rates), Append(revenues, r2))

\* Mutant: every year grows from current_revenue instead of the previous year
project_revenues_flat(current_revenue, growth_rates) ==
    [i \in 1..Len(growth_rates) |->
        RMul(current_revenue, RAdd(One, growth_rates[i]))]

project_revenues(current_revenue, growth_rates) ==
    project_revenues_loop(current_revenue, growth_rates, << >>)

project_free_cash_flows(revs, margin, reinvestment_rate) ==
    [i \in 1..Len(revs) |->
        RMul(RMul(revs[i], margin), RSub(One, reinvestment_rate))]

\* cf / ((1 + discount_rate) ** i) for i = 1, 2, ...; the first division
\* raises when 1 + discount_rate = 0
discount_cash_flows(cash_flows, discount_rate) ==
    IF cash_flows # << >> /\ RAdd(One, discount_rate) = Zero
    THEN Raise("ZeroDivisionError")
    ELSE Ok([i \in 1..Len(cash_flows) |->
                RDiv(cash_flows[i], RPow(RAdd(One, discount_rate), i))])

\* Mutant: the guard lets discount_rate = terminal_growth through, and the
\* division by their difference then fails
terminal_value_strict(last_cash_flow, discount_rate, terminal_growth) ==
    IF RLt(discount_rate, terminal_growth)
    THEN Raise("ValueError")
    ELSE IF discount_rate = terminal_growth
    THEN Raise("ZeroDivisionError")
    ELSE Ok(RDiv(RMul(last_cash_flow, RAdd(One, terminal_growth)),
                 RSub(discount_rate, terminal_growth)))

terminal_value(last_cash_flow, discount_rate, terminal_growth) ==
    IF RLeq(discount_rate, terminal_growth)
    THEN Raise("ValueError")
    ELSE Ok(RDiv(RMul(last_cash_flow, RAdd(One, terminal_growth)),
                 RSub(discount_rate, terminal_growth)))

\* sum(xs) of Python
RECURSIVE sum(_)
sum(xs) == IF xs = << >> THEN Zero ELSE RAdd(sum(SubSeq(xs, 1, Len(xs) - 1)), xs[Len(xs)])

-----------------------------------------------------------------------------
(* The statements of dcf_valuation, as functions of what they read.        *)

\* Mutant: no truncation, every supplied growth rate is projected
growths_all(inp) == inp.revenue_growth_rates

growths_of(inp) == Slice(inp.revenue_growth_rates, inp.forecast_periods)

\* Mutant: the tax rate is folded into the margin
fcfs_taxed(inp, revs) ==
    project_free_cash_flows(revs, RMul(inp.profit_margin, RSub(One, inp.tax_rate)),
                            inp.reinvestment_rate)

fcfs_of(inp, revs) ==
    project_free_cash_flows(revs, inp.profit_margin, inp.reinvestment_rate)

\* Mutant: an empty forecast is given a last cash flow of zero
last_or_zero(cash_flows) ==
    IF cash_flows = << >> THEN Ok(Zero) ELSE Ok(cash_flows[Len(cash_flows)])

\* fcfs[-1]
last_of(cash_flows) ==
    IF cash_flows = << >> THEN Raise("IndexError") ELSE Ok(cash_flows[Len(cash_flows)])

\* tv / ((1 + discount_rate) ** forecast_periods)
pv_terminal_of(inp, t) ==
    IF RPow(RAdd(One, inp.discount_rate), inp.forecast_periods) = Zero
    THEN Raise("ZeroDivisionError")
    ELSE Ok(RDiv(t, RPow(RAdd(One, inp.discount_rate), inp.forecast_periods)))

\* Mutant: the terminal value is left out of the total
enterprise_value_no_tv(discounted, pv) == sum(discounted)

enterprise_value_of(discounted, pv) == RAdd(sum(discounted), pv)

pack_numeric(revs, cfs, discounted, t, pv, e) ==
    [revenues |-> revs, fcfs |-> cfs, discounted_fcfs |-> discounted,
     terminal_value |-> t, pv_terminal_value |-> pv, enterprise_value |-> e]

Blank == [kind |-> "blank"]

\* The lines appended to explanation_lines, in order. Every number is kept
\* as the text shows it: Fmt2 for amounts, FmtPct for percentages.
explanation_of(inp, gs, revs, cfs, discounted, last, t, pv, e) ==
    << [kind |-> "method"], Blank,
       [kind |-> "inputs_header"], [kind |-> "inputs_dump", inputs |-> inp], Blank,
       [kind |-> "step1_header"] >>
    \o [i \in 1..(IF Len(gs) < Len(revs) THEN Len(gs) ELSE Len(revs)) |->
          [kind |-> "step1_year", year |-> i, growth |-> FmtPct(gs[i]),
           revenue |-> Fmt2(revs[i])]]
    \o << Blank, [kind |-> "step2_header"], [kind |-> "step2_formula"] >>
    \o [i \in 1..(IF Len(revs) < Len(cfs) THEN Len(revs) ELSE Len(cfs)) |->
          [kind |-> "step2_year", year |-> i, revenue |-> Fmt2(revs[i]),
           margin |-> FmtPct(inp.profit_margin),
           reinvestment |-> FmtPct(inp.reinvestment_rate), fcf |-> Fmt2(cfs[i])]]
    \o << Blank, [kind |-> "step3_header"],
          [kind |-> "step3_formula", rate |-> FmtPct(inp.discount_rate)] >>
    \o [i \in 1..(IF Len(cfs) < Len(discounted) THEN Len(cfs) ELSE Len(discounted)) |->
          [kind |-> "step3_year", year |-> i, fcf |-> Fmt2(cfs[i]),
           rate |-> FmtPct(inp.discount_rate), power |-> i, pv |-> Fmt2(discounted[i])]]
    \o << Blank, [kind |-> "step4_header"], [kind |-> "step4_model"],
          [kind |-> "step4_formula"],
          [kind |-> "step4_inputs", last_fcf |-> Fmt2(last),
           terminal_growth |-> FmtPct(inp.terminal_growth_rate),
           rate |-> FmtPct(inp.discount_rate)],
          [kind |-> "step4_tv", tv |-> Fmt2(t)],
          [kind |-> "step4_pv", pv |-> Fmt2(pv)],
          Blank, [kind |-> "step5_header"], [kind |-> "step5_formula"],
          [kind |-> "step5_sum", total |-> Fmt2(sum(discounted))],
          [kind |-> "step5_pv", pv |-> Fmt2(pv)],
          [kind |-> "step5_ev", ev |-> Fmt2(e)],
          Blank, [kind |-> "caveats_header"], [kind |-> "caveat_simplified"],
          [kind |-> "caveat_terminal"] >>

-----------------------------------------------------------------------------
(* The inputs a caller passes.                                             *)

Half == Rat(1, 2)
Quarter == Rat(1, 4)

CurrentRevenues == {Rat(-2, 1), Rat(4, 1)}
GrowthRates == {Rat(-1, 2), Zero, Half}
ProfitMargins == {Half, Rat(-1, 1)}
TaxRates == {Zero, Quarter}
ReinvestmentRates == {Zero, Half}
DiscountRates == {Rat(-1, 1), Zero, Half}
TerminalGrowthRates == {Rat(-2, 1), Zero, Quarter, Half}

RateLists == UNION {[1..k -> GrowthRates] : k \in 0..MaxYears}

DCFInputs ==
    [current_revenue : CurrentRevenues,
     revenue_growth_rates : RateLists,
     profit_margin : ProfitMargins,
     tax_rate : TaxRates,
     reinvestment_rate : ReinvestmentRates,
     discount_rate : DiscountRates,
     terminal_growth_rate : TerminalGrowthRates,
     forecast_periods : 0..(MaxYears + 1)]

\* The inputs of a second call: the same but for tax_rate, or the same with
\* the growth rates beyond forecast_periods dropped.
Variants(inp) ==
    {[inp EXCEPT !.tax_rate = t] : t \in TaxRates \ {inp.tax_rate}}
    \cup (IF Len(inp.revenue_growth_rates) > inp.forecast_periods
          THEN {[inp EXCEPT !.revenue_growth_rates =
                    SubSeq(inp.revenue_growth_rates, 1, inp.forecast_periods)]}
          ELSE {})

-----------------------------------------------------------------------------
VARIABLES
    inputs,             \* the DCFInputs object the call works on
    passed,             \* its value when the caller passed it
    pc,                 \* the statement of dcf_valuation to run next
    growths, revenues, fcfs, discounted_fcfs, last_fcf, tv, pv_tv, ev,
    numeric, explanation_lines,
    result,             \* the tuple returned, None before the return
    error,              \* the exception raised, "" if none
    prev                \* the caller's record of its first call, None before it ends

vars == << inputs, passed, pc, growths, revenues, fcfs, discounted_fcfs, last_fcf,
           tv, pv_tv, ev, numeric, explanation_lines, result, error, prev >>

locals == << growths, revenues, fcfs, discounted_fcfs, last_fcf, tv, pv_tv, ev,
             numeric, explanation_lines >>

Enter(inp) ==
    /\ inputs = inp
    /\ passed = inp
    /\ pc = "slice"
    /\ growths = << >> /\ revenues = << >> /\ fcfs = << >> /\ discounted_fcfs = << >>
    /\ last_fcf = None /\ tv = None /\ pv_tv = None /\ ev = None
    /\ numeric = None /\ explanation_lines = << >>
    /\ result = None
    /\ error = ""

Init == (\E inp \in DCFInputs : Enter(inp)) /\ prev = None

Fail(e) ==
    /\ pc' = "raised"
    /\ error' = e

\* growths = inputs.revenue_growth_rates[: inputs.forecast_periods]
StepSlice ==
    /\ pc = "slice"
    /\ growths' = growths_of(inputs)
    /\ pc' = "project_revenues"
    /\ UNCHANGED << inputs, passed, revenues, fcfs, discounted_fcfs, last_fcf, tv,
                    pv_tv, ev, numeric, explanation_lines, result, error, prev >>

StepRevenues ==
    /\ pc = "project_revenues"
    /\ revenues' = project_revenues(inputs.current_revenue, growths)
    /\ pc' = "project_fcfs"
    /\ UNCHANGED << inputs, passed, growths, fcfs, discounted_fcfs, last_fcf, tv,
                    pv_tv, ev, numeric, explanation_lines, result, error, prev >>

StepFCFs ==
    /\ pc = "project_fcfs"
    /\ fcfs' = fcfs_of(inputs, revenues)
    /\ pc' = "discount"
    /\ UNCHANGED << inputs, passed, growths, revenues, discounted_fcfs, last_fcf, tv,
                    pv_tv, ev, numeric, explanation_lines, result, error, prev >>

StepDiscount ==
    /\ pc = "discount"
    /\ discount_cash_flows(fcfs, inputs.discount_rate).ok
    /\ discounted_fcfs' = discount_cash_flows(fcfs, inputs.discount_rate).val
    /\ pc' = "last_fcf"
    /\ UNCHANGED << inputs, passed, growths, revenues, fcfs, last_fcf, tv,
                    pv_tv, ev, numeric, explanation_lines, result, error, prev >>

StepDiscountRaises ==
    /\ pc = "discount"
    /\ ~discount_cash_flows(fcfs, inputs.discount_rate).ok
    /\ Fail(discount_cash_flows(fcfs, inputs.discount_rate).err)
    /\ UNCHANGED << inputs, passed, locals, result, prev >>

StepLast ==
    /\ pc = "last_fcf"
    /\ last_of(fcfs).ok
    /\ last_fcf' = last_of(fcfs).val
    /\ pc' = "terminal_value"
    /\ UNCHANGED << inputs, passed, growths, revenues, fcfs, discounted_fcfs, tv,
                    pv_tv, ev, numeric, explanation_lines, result, error, prev >>

StepLastRaises ==
    /\ pc = "last_fcf"
    /\ ~last_of(fcfs).ok
    /\ Fail(last_of(fcfs).err)
    /\ UNCHANGED << inputs, passed, locals, result, prev >>

StepTerminal ==
    /\ pc = "terminal_value"
    /\ terminal_value(last_fcf, inputs.discount_rate, inputs.terminal_growth_rate).ok
    /\ tv' = terminal_value(last_fcf, inputs.discount_rate,
                            inputs.terminal_growth_rate).val
    /\ pc' = "pv_terminal"
    /\ UNCHANGED << inputs, passed, growths, revenues, fcfs, discounted_fcfs, last_fcf,
                    pv_tv, ev, numeric, explanation_lines, result, error, prev >>

StepTerminalRaises ==
    /\ pc = "terminal_value"
    /\ ~terminal_value(last_fcf, inputs.discount_rate, inputs.terminal_growth_rate).ok
    /\ Fail(terminal_value(last_fcf, inputs.discount_rate,
                           inputs.terminal_growth_rate).err)
    /\ UNCHANGED << inputs, passed, locals, result, prev >>

\* The divisor (1 + discount_rate) ** forecast_periods is zero only for
\* discount_rate = -1 with forecast_periods > 0; the division would raise
\* then, but an earlier statement already has (the discounting of a
\* non-empty fcfs, or fcfs[-1] of an empty one).
StepPV ==
    /\ pc = "pv_terminal"
    /\ IF pv_terminal_of(inputs, tv).ok
       THEN /\ pv_tv' = pv_terminal_of(inputs, tv).val
            /\ pc' = "enterprise_value"
            /\ error' = error
       ELSE /\ Fail(pv_terminal_of(inputs, tv).err)
            /\ pv_tv' = pv_tv
    /\ UNCHANGED << inputs, passed, growths, revenues, fcfs, discounted_fcfs, last_fcf,
                    tv, ev, numeric, explanation_lines, result, prev >>

StepEV ==
    /\ pc = "enterprise_value"
    /\ ev' = enterprise_value_of(discounted_fcfs, pv_tv)
    /\ pc' = "pack"
    /\ UNCHANGED << inputs, passed, growths, revenues, fcfs, discounted_fcfs, last_fcf,
                    tv, pv_tv, numeric, explanation_lines, result, error, prev >>

StepPack ==
    /\ pc = "pack"
    /\ numeric' = pack_numeric(revenues, fcfs, discounted_fcfs, tv, pv_tv, ev)
    /\ pc' = "explain"
    /\ UNCHANGED << inputs, passed, growths, revenues, fcfs, discounted_fcfs, last_fcf,
                    tv, pv_tv, ev, explanation_lines, result, error, prev >>

StepExplain ==
    /\ pc = "explain"
    /\ explanation_lines' = explanation_of(inputs, growths, revenues, fcfs,
                                           discounted_fcfs, last_fcf, tv, pv_tv, ev)
    /\ pc' = "return"
    /\ UNCHANGED << inputs, passed, growths, revenues, fcfs, discounted_fcfs, last_fcf,
                    tv, pv_tv, ev, numeric, result, error, prev >>

Return ==
    /\ pc = "return"
    /\ result' = [numeric |-> numeric, explanation |-> explanation_lines]
    /\ pc' = "returned"
    /\ UNCHANGED << inputs, passed, locals, error, prev >>

Done == pc \in {"returned", "raised"}

\* What a caller sees of a finished call
Outcome == [inputs |-> inputs, passed |-> passed, returned |-> pc = "returned",
            error |-> error, result |-> result]

\* The caller notes the outcome and calls again on a related input.
CallAgain ==
    /\ Done
    /\ prev = None
    /\ prev' = Outcome
    /\ \E inp \in Variants(passed) :
          /\ inputs' = inp
          /\ passed' = inp
    /\ pc' = "slice"
    /\ growths' = << >> /\ revenues' = << >> /\ fcfs' = << >>
    /\ discounted_fcfs' = << >>
    /\ last_fcf' = None /\ tv' = None /\ pv_tv' = None /\ ev' = None
    /\ numeric' = None /\ explanation_lines' = << >>
    /\ result' = None
    /\ error' = ""

Next ==
    \/ StepSlice
    \/ StepRevenues
    \/ StepFCFs
    \/ StepDiscount
    \/ StepDiscountRaises
    \/ StepLast
    \/ StepLastRaises
    \/ StepTerminal
    \/ StepTerminalRaises
    \/ StepPV
    \/ StepEV
    \/ StepPack
    \/ StepExplain
    \/ Return
    \/ CallAgain

Spec == Init /\ [][Next]_vars

-----------------------------------------------------------------------------
(* Shorthands for the claims.                                              *)

Supplied == Len(passed.revenue_growth_rates)
Periods == passed.forecast_periods
Returned == pc = "returned"
Raised == pc = "raised"
RevenuesProjected == pc \notin {"slice", "project_revenues"}

\* Two finished calls ended the same way for the caller's numbers: the same
\* exception, or the same numeric record.
SameNumbers(o) ==
    /\ o.returned = Returned
    /\ o.error = error
    /\ o.returned => o.result.numeric = result.numeric

-----------------------------------------------------------------------------
\* C1: whenever forecast_periods exceeds the number of growth rates supplied,
\* the call fails (read generously: with any exception) and returns no
\* result and no explanation.
C1_InsufficientDataRaised ==
    (Done /\ Periods > Supplied) => (Raised /\ error # "" /\ result = None)

-----------------------------------------------------------------------------
\* C2 as stated: with 1 <= forecast_periods <= len(revenue_growth_rates) the
\* call fails with the terminal-value precondition error exactly when
\* discount_rate <= terminal_growth_rate, and returns a result whenever
\* discount_rate > terminal_growth_rate.
C2_RaisesExactlyWhenNotAbove ==
    (Done /\ 1 <= Periods /\ Periods <= Supplied) =>
        /\ (Raised /\ error = "ValueError")
              <=> RLeq(passed.discount_rate, passed.terminal_growth_rate)
        /\ RLt(passed.terminal_growth_rate, passed.discount_rate)
              => (Returned /\ result # None)

\* C2 amended: the same for discount_rate # -1; with discount_rate = -1 the
\* call fails with a division by zero at the discounting step, whatever the
\* terminal growth rate.
C2_RaisesExactlyWhenNotAboveUnlessMinusOne ==
    (Done /\ 1 <= Periods /\ Periods <= Supplied) =>
        IF RAdd(One, passed.discount_rate) = Zero
        THEN Raised /\ error = "ZeroDivisionError" /\ tv = None /\ result = None
        ELSE /\ (Raised /\ error = "ValueError")
                   <=> RLeq(passed.discount_rate, passed.terminal_growth_rate)
             /\ RLeq(passed.discount_rate, passed.terminal_growth_rate)
                   => result = None
             /\ RLt(passed.terminal_growth_rate, passed.discount_rate)
                   => (Returned /\ error = "" /\ result # None)

\* Equality of the two rates raises, in a call that has a last cash flow.
C2_Witness ==
    /\ Raised /\ error = "ValueError"
    /\ 1 <= Periods /\ Periods <= Supplied
    /\ passed.discount_rate = passed.terminal_growth_rate
    /\ last_fcf # None /\ tv = None /\ result = None

-----------------------------------------------------------------------------
\* C3: the three sequences of every returned result have the same length,
\* and that length is forecast_periods.
C3_LengthsAreForecastPeriods ==
    Returned =>
        /\ Len(result.numeric.revenues) = Periods
        /\ Len(result.numeric.fcfs) = Periods
        /\ Len(result.numeric.discounted_fcfs) = Periods

-----------------------------------------------------------------------------
\* C4: in every returned result enterprise_value is the sum of the result's
\* own discounted_fcfs plus the result's own pv_terminal_value, and these
\* are the values the call computed.
C4_EnterpriseValueIsSumPlusPV ==
    Returned =>
        /\ result.numeric.enterprise_value =
              RAdd(sum(result.numeric.discounted_fcfs),
                   result.numeric.pv_terminal_value)
        /\ result.numeric.discounted_fcfs = discounted_fcfs
        /\ result.numeric.pv_terminal_value = pv_tv
        /\ result.numeric.enterprise_value = ev

C4_Witness ==
    /\ Returned
    /\ Len(result.numeric.discounted_fcfs) >= 2
    /\ result.numeric.pv_terminal_value # Zero
    /\ sum(result.numeric.discounted_fcfs) # Zero
    /\ result.numeric.discounted_fcfs[1] # result.numeric.discounted_fcfs[2]

-----------------------------------------------------------------------------
\* C5: in every returned result terminal_value is
\* fcfs[forecast_periods - 1] * (1 + terminal_growth_rate)
\*   / (discount_rate - terminal_growth_rate),
\* pv_terminal_value is terminal_value / (1 + discount_rate) ^ forecast_periods,
\* and the last explicit cash flow is discounted by that same number of periods.
C5_TerminalValueFromFinalYear ==
    Returned =>
        /\ 1 <= Periods /\ Periods <= Len(result.numeric.fcfs)
        /\ result.numeric.terminal_value =
              RDiv(RMul(result.numeric.fcfs[Periods],
                        RAdd(One, passed.terminal_growth_rate)),
                   RSub(passed.discount_rate, passed.terminal_growth_rate))
        /\ result.numeric.pv_terminal_value =
              RDiv(result.numeric.terminal_value,
                   RPow(RAdd(One, passed.discount_rate), Periods))
        /\ result.numeric.discounted_fcfs[Len(result.numeric.discounted_fcfs)] =
              RDiv(result.numeric.fcfs[Len(result.numeric.fcfs)],
                   RPow(RAdd(One, passed.discount_rate), Periods))

-----------------------------------------------------------------------------
\* C6: revenues compound year on year from current_revenue, one entry per
\* growth rate used; with current_revenue > 0 and every rate used >= 0 the
\* first revenue is >= current_revenue and no revenue is below the one before.
C6_RevenuesCompound ==
    RevenuesProjected =>
        /\ Len(revenues) = Len(growths)
        /\ \A i \in 1..Len(revenues) :
              revenues[i] =
                  RMul(IF i = 1 THEN inputs.current_revenue ELSE revenues[i - 1],
                       RAdd(One, growths[i]))
        /\ (/\ RLt(Zero, inputs.current_revenue)
            /\ \A i \in 1..Len(growths) : RLeq(Zero, growths[i]))
              => \A i \in 1..Len(revenues) :
                    RLeq(IF i = 1 THEN inputs.current_revenue ELSE revenues[i - 1],
                         revenues[i])

\* Two years of positive growth on a positive revenue: the second year
\* builds on the first.
C6_Witness ==
    /\ RevenuesProjected
    /\ Len(revenues) >= 2
    /\ RLt(Zero, inputs.current_revenue)
    /\ RLt(Zero, growths[1]) /\ RLt(Zero, growths[2])
    /\ RLt(revenues[1], revenues[2])
    /\ revenues[2] # RMul(inputs.current_revenue, RAdd(One, growths[2]))

-----------------------------------------------------------------------------
\* C7: two calls whose inputs differ only in tax_rate end with the same
\* numbers (or the same exception), and each fcfs[i] of a result is
\* revenues[i] * profit_margin * (1 - reinvestment_rate).
C7_TaxRateIgnored ==
    Done =>
        /\ (/\ prev # None
            /\ prev.passed.tax_rate # passed.tax_rate
            /\ [prev.passed EXCEPT !.tax_rate = passed.tax_rate] = passed)
              => SameNumbers(prev)
        /\ Returned =>
              /\ Len(result.numeric.fcfs) = Len(result.numeric.revenues)
              /\ \A i \in 1..Len(result.numeric.fcfs) :
                    result.numeric.fcfs[i] =
                        RMul(RMul(result.numeric.revenues[i], passed.profit_margin),
                             RSub(One, passed.reinvestment_rate))

C7_Witness ==
    /\ Returned
    /\ prev # None /\ prev.returned
    /\ prev.passed.tax_rate # passed.tax_rate
    /\ [prev.passed EXCEPT !.tax_rate = passed.tax_rate] = passed
    /\ passed.tax_rate # Zero
    /\ result.numeric.fcfs[1] # Zero
    /\ result.numeric.enterprise_value # Zero

-----------------------------------------------------------------------------
\* C8: a call whose revenue_growth_rates is longer than forecast_periods ends
\* with the same numbers as the call on the list cut to its first
\* forecast_periods entries (so the extra entries cause no exception), and
\* the object passed is as the caller passed it.
C8_ExtraGrowthRatesIgnored ==
    /\ inputs = passed
    /\ Done =>
          /\ (/\ prev # None
              /\ Len(prev.passed.revenue_growth_rates) > prev.passed.forecast_periods
              /\ passed = [prev.passed EXCEPT !.revenue_growth_rates =
                              SubSeq(prev.passed.revenue_growth_rates, 1,
                                     prev.passed.forecast_periods)])
                => /\ SameNumbers(prev)
                   /\ prev.inputs = prev.passed

C8_Witness ==
    /\ Returned
    /\ prev # None /\ prev.returned
    /\ Len(prev.passed.revenue_growth_rates) > prev.passed.forecast_periods
    /\ passed = [prev.passed EXCEPT !.revenue_growth_rates =
                    SubSeq(prev.passed.revenue_growth_rates, 1,
                           prev.passed.forecast_periods)]
    /\ prev.passed.revenue_growth_rates[Len(prev.passed.revenue_growth_rates)] # Zero
    /\ Len(result.numeric.revenues) = Periods
    /\ result.numeric.enterprise_value # Zero

-----------------------------------------------------------------------------
\* C9: the explanation is, in this order, the method line, the inputs dump,
\* Steps 1 to 5 and the caveats; Steps 1, 2 and 3 each hold exactly
\* forecast_periods per-year lines, Year 1 .. forecast_periods in ascending
\* order; and the amounts shown are those of the returned result.
Kinds(lines) == [i \in 1..Len(lines) |-> lines[i].kind]

RECURSIVE YearLines(_, _)
YearLines(kind, n) ==
    IF n = 0 THEN << >> ELSE Append(YearLines(kind, n - 1), kind)

LinesOf(lines, kind) == SelectSeq(lines, LAMBDA l : l.kind = kind)

C9_ExplanationMirrorsResult ==
    Returned =>
        LET lines == result.explanation
            num == result.numeric
        IN  /\ Kinds(lines) =
                  << "method", "blank", "inputs_header", "inputs_dump", "blank",
                     "step1_header" >>
                  \o YearLines("step1_year", Periods)
                  \o << "blank", "step2_header", "step2_formula" >>
                  \o YearLines("step2_year", Periods)
                  \o << "blank", "step3_header", "step3_formula" >>
                  \o YearLines("step3_year", Periods)
                  \o << "blank", "step4_header", "step4_model", "step4_formula",
                        "step4_inputs", "step4_tv", "step4_pv",
                        "blank", "step5_header", "step5_formula", "step5_sum",
                        "step5_pv", "step5_ev",
                        "blank", "caveats_header", "caveat_simplified",
                        "caveat_terminal" >>
            /\ \A i \in 1..Periods :
                  /\ LinesOf(lines, "step1_year")[i].year = i
                  /\ LinesOf(lines, "step1_year")[i].revenue = Fmt2(num.revenues[i])
                  /\ LinesOf(lines, "step2_year")[i].year = i
                  /\ LinesOf(lines, "step2_year")[i].revenue = Fmt2(num.revenues[i])
                  /\ LinesOf(lines, "step2_year")[i].fcf = Fmt2(num.fcfs[i])
                  /\ LinesOf(lines, "step3_year")[i].year = i
                  /\ LinesOf(lines, "step3_year")[i].fcf = Fmt2(num.fcfs[i])
                  /\ LinesOf(lines, "step3_year")[i].pv = Fmt2(num.discounted_fcfs[i])
            /\ LinesOf(lines, "step4_tv")[1].tv = Fmt2(num.terminal_value)
            /\ LinesOf(lines, "step4_pv")[1].pv = Fmt2(num.pv_terminal_value)
            /\ LinesOf(lines, "step5_pv")[1].pv = Fmt2(num.pv_terminal_value)
            /\ LinesOf(lines, "step5_ev")[1].ev = Fmt2(num.enterprise_value)

-----------------------------------------------------------------------------
\* C10: no returned result has zero forecast years; whenever the growth
\* rates selected are empty (forecast_periods = 0, or no rates supplied) the
\* call fails at the terminal-value step (fcfs[-1]) with nothing packed or
\* explained.
C10_NoEmptyForecastReturned ==
    /\ Returned => Len(result.numeric.revenues) >= 1
    /\ (Done /\ (Periods = 0 \/ Supplied = 0)) => growths = << >>
    /\ (Done /\ growths = << >>) =>
          /\ Raised /\ error = "IndexError"
          /\ last_fcf = None /\ tv = None
          /\ numeric = None /\ explanation_lines = << >> /\ result = None

C10_Witness ==
    /\ Raised /\ error = "IndexError"
    /\ Periods = 0 /\ Supplied >= 1
    /\ RAdd(One, passed.discount_rate) = Zero

=============================================================================
